---- MODULE Spec2Model ----
(***************************************************************************)
(* Model of merge_pdf (src/src/main.rs): main() discovers and loads the    *)
(* PDF documents of a folder, creates the output file, merges the loaded   *)
(* documents with merge_pdf() and saves the result.                        *)
(*                                                                         *)
(* An object identifier is modelled by its object number (every generation *)
(* number is 0, and lopdf's renumbering keeps generations).  0 stands for  *)
(* "no reference".  An object is a dictionary, modelled as a record:       *)
(*   type      the /Type name ("" when the dictionary has none)            *)
(*   body      <<d, i>>: the rest of the dictionary's content, identified  *)
(*             by the input document d and original object number i it     *)
(*             was read from                                               *)
(*   pages     Catalog /Pages reference                                    *)
(*   outlines  /Outlines reference                                         *)
(*   parent    /Parent reference                                           *)
(*   kids      /Kids array of references                                   *)
(*   count     /Count value (<<n>> is the integer n, a longer sequence an  *)
(*             array of integers)                                          *)
(*   dest      /Dest page reference of an outline item                     *)
(*   F         a Name-valued custom field (0 when absent)                  *)
(*                                                                         *)
(* The lopdf calls of merge_pdf are modelled by what lopdf does:           *)
(*   Document::renumber_objects_with  RenumberObjectsWith                  *)
(*   Document::get_pages / page_iter  PageIter                             *)
(*   Document::traverse_objects       Visited                              *)
(*   Dictionary::extend               DictExtend                           *)
(*   Document::add_bookmark           the bookmarks sequence               *)
(*   Document::adjust_zero_pages      AdjustZeroPages                      *)
(*   Document::build_outline          BuildOutline                         *)
(***************************************************************************)
EXTENDS Naturals, Sequences, FiniteSets, TLC

\* Bounds of the input space.
MaxDocs == 2
MaxPages == 2

VARIABLES files, pc, documents, max_id, page_num, documents_pages,
          documents_objects, objects, trailer_root, doc_max_id, bookmarks,
          catalog_object, pages_object, outFile, diag, status

vars == <<files, pc, documents, max_id, page_num, documents_pages,
          documents_objects, objects, trailer_root, doc_max_id, bookmarks,
          catalog_object, pages_object, outFile, diag, status>>

----------------------------------------------------------------------------
\* Generic helpers.

Range(s) == {s[i] : i \in 1..Len(s)}

Min(S) == CHOOSE x \in S : \A y \in S : x <= y

RECURSIVE SortedSeq(_)
\* The elements of a finite set of numbers in ascending order (BTreeMap
\* iteration order).
SortedSeq(S) == IF S = {} THEN <<>> ELSE <<Min(S)>> \o SortedSeq(S \ {Min(S)})

IsAscending(s) == \A i \in 1..Len(s) : \A j \in 1..Len(s) : i < j => s[i] < s[j]

EmptyMap == [k \in {} |-> 0]

\* BTreeMap::extend: entries of n replace entries of m with the same key.
MapExtend(m, n) ==
    [k \in DOMAIN m \cup DOMAIN n |-> IF k \in DOMAIN n THEN n[k] ELSE m[k]]

\* BTreeMap::insert
MapInsert(m, k, v) == [j \in DOMAIN m \cup {k} |-> IF j = k THEN v ELSE m[j]]

Obj(t, b) ==
    [type |-> t, body |-> b, pages |-> 0, outlines |-> 0, parent |-> 0,
     kids |-> <<>>, count |-> <<>>, dest |-> 0, F |-> 0]

----------------------------------------------------------------------------
\* Input documents, as Document::load returns them.

\* The shape of one input document.
\*   empty     the document has no object at all
\*   typed     its root dictionary carries /Type /Catalog
\*   ol        it has an Outlines object (lowest object number), referenced
\*             by the catalog
\*   hasPages  it has a Pages object
\*   np        number of pages
\*   rev       the pages' object numbers descend in page order
\*   pf        its Pages dictionary defines the custom field F
\* Every document has a flat page tree (one Pages node) and all its objects
\* can be reached from its trailer; object numbers start at 1 in every
\* document, so the inputs' identifiers collide before renumbering.
DocParams ==
    {p \in [empty : BOOLEAN, typed : BOOLEAN, ol : BOOLEAN, hasPages : BOOLEAN,
            np : 0..MaxPages, rev : BOOLEAN, pf : BOOLEAN] :
        /\ p.empty => ~p.typed /\ ~p.ol /\ ~p.hasPages
        /\ ~p.hasPages => p.np = 0 /\ ~p.pf
        /\ p.rev => p.np >= 2
        /\ p.ol => p.typed}

\* Original object numbers of the document of shape p.
OutlinesNo(p) == IF p.ol THEN 1 ELSE 0
RootNo(p) == IF p.empty THEN 0 ELSE OutlinesNo(p) + 1
PagesNo(p) == IF p.hasPages THEN RootNo(p) + 1 ELSE 0
\* Object number of the k-th page in page order.
PageNo(p, k) == IF p.rev THEN PagesNo(p) + (p.np + 1 - k) ELSE PagesNo(p) + k
NumObjects(p) ==
    IF p.empty THEN 0
    ELSE 1 + (IF p.ol THEN 1 ELSE 0) + (IF p.hasPages THEN 1 + p.np ELSE 0)

\* The d-th input document, of shape p.
MakeDoc(d, p) ==
    [objects |->
        [i \in 1..NumObjects(p) |->
            IF i = OutlinesNo(p) THEN Obj("Outlines", <<d, i>>)
            ELSE IF i = RootNo(p) THEN
                [Obj(IF p.typed THEN "Catalog" ELSE "", <<d, i>>)
                    EXCEPT !.pages = PagesNo(p), !.outlines = OutlinesNo(p)]
            ELSE IF i = PagesNo(p) THEN
                [Obj("Pages", <<d, i>>)
                    EXCEPT !.kids = [k \in 1..p.np |-> PageNo(p, k)],
                           !.count = <<p.np>>,
                           !.F = IF p.pf THEN d ELSE 0]
            ELSE [Obj("Page", <<d, i>>) EXCEPT !.parent = PagesNo(p)]],
     root |-> RootNo(p),
     max_id |-> NumObjects(p)]

----------------------------------------------------------------------------
\* lopdf operations.

RECURSIVE PagesUnder(_, _, _)
\* Document::page_iter below the Pages node id: the Page objects of its
\* Kids, in order, descending into nested Pages nodes.
PagesUnder(objs, id, fuel) ==
    IF fuel = 0 \/ id \notin DOMAIN objs THEN <<>>
    ELSE LET ks == objs[id].kids
             RECURSIVE Walk(_)
             Walk(i) ==
                 IF i > Len(ks) THEN <<>>
                 ELSE (IF ks[i] \notin DOMAIN objs THEN <<>>
                       ELSE IF objs[ks[i]].type = "Page" THEN <<ks[i]>>
                       ELSE IF objs[ks[i]].type = "Pages"
                            THEN PagesUnder(objs, ks[i], fuel - 1)
                       ELSE <<>>) \o Walk(i + 1)
         IN Walk(1)

\* Document::page_iter / get_pages().into_values(): the page identifiers in
\* page order, found from the trailer's Root through its /Pages reference.
PageIter(objs, root) ==
    IF root \notin DOMAIN objs THEN <<>>
    ELSE PagesUnder(objs, objs[root].pages, Cardinality(DOMAIN objs))

\* Variant of RenumberOrder that never moves the pages to the front.
RenumberOrderAscending(objs, root) == SortedSeq(DOMAIN objs)

\* The order in which renumber_objects_with hands out new numbers: ascending
\* old numbers, except that when the pages' numbers do not ascend in page
\* order the pages come first, in page order.
RenumberOrder(objs, root) ==
    LET po == PageIter(objs, root)
    IN IF IsAscending(po) THEN SortedSeq(DOMAIN objs)
       ELSE po \o SortedSeq(DOMAIN objs \ Range(po))

\* The replace map of renumber_objects_with: old number |-> new number.
Replace(objs, root, starting_id) ==
    LET ord == RenumberOrder(objs, root)
    IN [old \in DOMAIN objs |->
          starting_id + (CHOOSE i \in 1..Len(ord) : ord[i] = old) - 1]

\* The action renumber_objects_with applies to one Reference.
NewRef(rep, r) == IF r \in DOMAIN rep THEN rep[r] ELSE r

\* An object with that action applied to each of its references.
MapRefs(o, rep) ==
    [o EXCEPT !.pages = NewRef(rep, @), !.outlines = NewRef(rep, @),
              !.parent = NewRef(rep, @), !.dest = NewRef(rep, @),
              !.kids = [i \in 1..Len(o.kids) |-> NewRef(rep, o.kids[i])]]

RefsOf(o) == ({o.pages, o.outlines, o.parent, o.dest} \cup Range(o.kids)) \ {0}

RECURSIVE Closure(_, _, _, _)
Closure(keyed, rep, V, fuel) ==
    IF fuel = 0 THEN V
    ELSE Closure(keyed, rep,
                 V \cup UNION {{NewRef(rep, r) : r \in RefsOf(keyed[i])} :
                                  i \in V \cap DOMAIN keyed},
                 fuel - 1)

\* Document::traverse_objects: the (re-keyed) objects it visits, starting
\* from the trailer and following the rewritten references.
Visited(keyed, rep, root) ==
    IF root = 0 THEN {}
    ELSE Closure(keyed, rep, {NewRef(rep, root)}, Cardinality(DOMAIN keyed) + 1)

\* Variant of RenumberBookmarks that leaves the targets as recorded.
RenumberBookmarksStale(bms, rep) == bms

\* Bookmark targets after renumber_objects_with (renumber_bookmarks).
RenumberBookmarks(bms, rep) ==
    [i \in 1..Len(bms) |-> [bms[i] EXCEPT !.page = NewRef(rep, @)]]

\* Document::renumber_objects_with(starting_id) on a document
\* [objects, root, max_id].
RenumberObjectsWith(doc, starting_id) ==
    LET rep == Replace(doc.objects, doc.root, starting_id)
        keyed == [n \in {rep[old] : old \in DOMAIN rep} |->
                     doc.objects[CHOOSE old \in DOMAIN rep : rep[old] = n]]
        vis == Visited(keyed, rep, doc.root)
    IN [objects |-> [n \in DOMAIN keyed |->
                        IF n \in vis THEN MapRefs(keyed[n], rep) ELSE keyed[n]],
        root |-> NewRef(rep, doc.root),
        max_id |-> starting_id + Cardinality(DOMAIN doc.objects) - 1]

----------------------------------------------------------------------------
NoObject == [some |-> FALSE, id |-> 0, obj |-> Obj("", <<0, 0>>)]

Init ==
    /\ files \in UNION {[1..n -> DocParams] : n \in 0..MaxDocs}
    /\ pc = "load"
    /\ documents = <<>>
    /\ max_id = 1
    /\ page_num = 1
    /\ documents_pages = EmptyMap
    /\ documents_objects = EmptyMap
    /\ objects = EmptyMap
    /\ trailer_root = 0
    /\ doc_max_id = 0
    /\ bookmarks = <<>>
    /\ catalog_object = NoObject
    /\ pages_object = NoObject
    /\ outFile = "untouched"
    /\ diag = 0
    /\ status = "running"

\* main, lines 199-208: every discovered file loads.
Load ==
    /\ pc = "load"
    /\ documents' = [d \in 1..Len(files) |-> MakeDoc(d, files[d])]
    /\ pc' = "create"
    /\ UNCHANGED <<files, max_id, page_num, documents_pages, documents_objects,
                   objects, trailer_root, doc_max_id, bookmarks, catalog_object,
                   pages_object, outFile, diag, status>>

\* main, lines 199-208: walking the folder or Document::load fails; `?`
\* returns the error, the runtime prints it and exits with a failure status.
LoadErr ==
    /\ pc = "load"
    /\ pc' = "done"
    /\ diag' = diag + 1
    /\ status' = "failure"
    /\ UNCHANGED <<files, documents, max_id, page_num, documents_pages,
                   documents_objects, objects, trailer_root, doc_max_id,
                   bookmarks, catalog_object, pages_object, outFile>>

\* main, lines 211-212: File::create creates or truncates the output file.
Create ==
    /\ pc = "create"
    /\ outFile' = "created"
    /\ pc' = "alloc"
    /\ UNCHANGED <<files, documents, max_id, page_num, documents_pages,
                   documents_objects, objects, trailer_root, doc_max_id,
                   bookmarks, catalog_object, pages_object, diag, status>>

\* main, line 212: File::create fails.
CreateErr ==
    /\ pc = "create"
    /\ pc' = "done"
    /\ diag' = diag + 1
    /\ status' = "failure"
    /\ UNCHANGED <<files, documents, max_id, page_num, documents_pages,
                   documents_objects, objects, trailer_root, doc_max_id,
                   bookmarks, catalog_object, pages_object, outFile>>

\* Variant of NextMaxId that reuses the document's last identifier.
NextMaxIdOverlap(doc) == doc.max_id

\* The running maximum after a document was renumbered (line 35).
NextMaxId(doc) == doc.max_id + 1

\* Variant of NextPageNum that advances for every document.
NextPageNumEveryDoc(n, pages) == n + 1

\* page_num after a document was collected (lines 42-47): it advances only
\* when the document had a first page.
NextPageNum(n, pages) == IF pages # <<>> THEN n + 1 ELSE n

\* The bookmark recorded for a document (lines 42-47): none for a document
\* without pages, else "Page_{page_num}" targeting its first page.  The title
\* is modelled by its number.
FirstPageBookmark(n, pages) ==
    IF pages # <<>> THEN <<[title |-> n, page |-> pages[1]]>> ELSE <<>>

\* merge_pdf, lines 31-57: one iteration of the loop over the documents.
AllocCollect ==
    /\ pc = "alloc"
    /\ documents # <<>>
    /\ LET doc == RenumberObjectsWith(Head(documents), max_id)
           pages == PageIter(doc.objects, doc.root)
       IN /\ max_id' = NextMaxId(doc)
          /\ bookmarks' = bookmarks \o FirstPageBookmark(page_num, pages)
          /\ page_num' = NextPageNum(page_num, pages)
          /\ documents_pages' =
                 MapExtend(documents_pages,
                           [id \in Range(pages) |-> doc.objects[id]])
          /\ documents_objects' = MapExtend(documents_objects, doc.objects)
    /\ documents' = Tail(documents)
    /\ UNCHANGED <<files, pc, objects, trailer_root, doc_max_id, catalog_object,
                   pages_object, outFile, diag, status>>

\* lopdf Dictionary::extend(self, other), for Name-valued Type and F, array
\* Kids and integer Count: the result has exactly the keys of other; a key of
\* both keeps self's Name, concatenates the arrays and gathers the integers
\* into an array; a key of self alone is dropped.
DictExtend(self, other) ==
    [other EXCEPT !.type = IF other.type = "" THEN "" ELSE self.type,
                  !.kids = self.kids \o other.kids,
                  !.count = self.count \o other.count,
                  !.F = IF other.F = 0 THEN 0
                        ELSE IF self.F # 0 THEN self.F ELSE other.F]

\* merge_pdf, lines 67-106: the match on one object of documents_objects.
\* acc = [cat, pgs, objs] are catalog_object, pages_object, document.objects.
ClassifyOne(acc, id, object) ==
    IF object.type = "Catalog" THEN
        [acc EXCEPT !.cat = [some |-> TRUE,
                             id |-> IF acc.cat.some THEN acc.cat.id ELSE id,
                             obj |-> object]]
    ELSE IF object.type = "Pages" THEN
        [acc EXCEPT !.pgs = [some |-> TRUE,
                             id |-> IF acc.pgs.some THEN acc.pgs.id ELSE id,
                             obj |-> IF acc.pgs.some
                                     THEN DictExtend(object, acc.pgs.obj)
                                     ELSE object]]
    ELSE IF object.type \in {"Page", "Outlines", "Outline"} THEN acc
    ELSE [acc EXCEPT !.objs = MapInsert(acc.objs, id, object)]

RECURSIVE ClassifyAll(_, _, _)
\* merge_pdf, lines 64-107: the loop over documents_objects in key order.
ClassifyAll(acc, ids, objs) ==
    IF ids = <<>> THEN acc
    ELSE ClassifyAll(ClassifyOne(acc, Head(ids), objs[Head(ids)]), Tail(ids), objs)

\* merge_pdf, lines 60-107, entered when the loop over the documents ends.
Classify ==
    /\ pc = "alloc"
    /\ documents = <<>>
    /\ LET acc == ClassifyAll([cat |-> catalog_object, pgs |-> pages_object,
                               objs |-> objects],
                              SortedSeq(DOMAIN documents_objects),
                              documents_objects)
       IN /\ catalog_object' = acc.cat
          /\ pages_object' = acc.pgs
          /\ objects' = acc.objs
    /\ pc' = "checkPages"
    /\ UNCHANGED <<files, documents, max_id, page_num, documents_pages,
                   documents_objects, trailer_root, doc_max_id, bookmarks,
                   outFile, diag, status>>

\* merge_pdf, lines 110-114: no Pages object; prints and returns None.
PagesNotFound ==
    /\ pc = "checkPages"
    /\ ~pages_object.some
    /\ diag' = diag + 1
    /\ pc' = "mergeFailed"
    /\ UNCHANGED <<files, documents, max_id, page_num, documents_pages,
                   documents_objects, objects, trailer_root, doc_max_id,
                   bookmarks, catalog_object, pages_object, outFile, status>>

\* Variant of SetParent that keeps the page's own Parent.
SetParentKeep(object, id) == object

\* Line 120: dictionary.set("Parent", pages id).
SetParent(object, id) == [object EXCEPT !.parent = id]

\* merge_pdf, lines 117-126: every pooled page goes into the merged table
\* with its Parent set to the surviving Pages identifier.
Reparent ==
    /\ pc = "checkPages"
    /\ pages_object.some
    /\ objects' = MapExtend(objects,
                            [id \in DOMAIN documents_pages |->
                                SetParent(documents_pages[id], pages_object.id)])
    /\ pc' = "checkCatalog"
    /\ UNCHANGED <<files, documents, max_id, page_num, documents_pages,
                   documents_objects, trailer_root, doc_max_id, bookmarks,
                   catalog_object, pages_object, outFile, diag, status>>

\* merge_pdf, lines 129-133: no Catalog object; prints and returns None.
CatalogNotFound ==
    /\ pc = "checkCatalog"
    /\ ~catalog_object.some
    /\ diag' = diag + 1
    /\ pc' = "mergeFailed"
    /\ UNCHANGED <<files, documents, max_id, page_num, documents_pages,
                   documents_objects, objects, trailer_root, doc_max_id,
                   bookmarks, catalog_object, pages_object, outFile, status>>

\* Lines 143-152: the surviving Pages dictionary with Count and Kids set
\* from the page pool, in key order.
NewPages(dictionary, pool) ==
    [dictionary EXCEPT !.count = <<Cardinality(DOMAIN pool)>>,
                       !.kids = SortedSeq(DOMAIN pool)]

\* merge_pdf, lines 135-157.
BuildPages ==
    /\ pc = "checkCatalog"
    /\ catalog_object.some
    /\ objects' = MapInsert(objects, pages_object.id,
                            NewPages(pages_object.obj, documents_pages))
    /\ pc' = "buildCatalog"
    /\ UNCHANGED <<files, documents, max_id, page_num, documents_pages,
                   documents_objects, trailer_root, doc_max_id, bookmarks,
                   catalog_object, pages_object, outFile, diag, status>>

\* Lines 161-163: the surviving Catalog dictionary.
NewCatalog(dictionary, pagesId) ==
    [dictionary EXCEPT !.pages = pagesId, !.outlines = 0]

\* merge_pdf, lines 160-170.
BuildCatalog ==
    /\ pc = "buildCatalog"
    /\ objects' = MapInsert(objects, catalog_object.id,
                            NewCatalog(catalog_object.obj, pages_object.id))
    /\ trailer_root' = catalog_object.id
    /\ pc' = "renumber"
    /\ UNCHANGED <<files, documents, max_id, page_num, documents_pages,
                   documents_objects, doc_max_id, bookmarks, catalog_object,
                   pages_object, outFile, diag, status>>

\* merge_pdf, lines 173-176: document.renumber_objects(), which is
\* renumber_objects_with(1); it also moves the bookmarks' targets.
Renumber ==
    /\ pc = "renumber"
    /\ LET doc == RenumberObjectsWith([objects |-> objects, root |-> trailer_root,
                                       max_id |-> Cardinality(DOMAIN objects)], 1)
       IN /\ objects' = doc.objects
          /\ trailer_root' = doc.root
          /\ doc_max_id' = doc.max_id
    /\ bookmarks' = RenumberBookmarks(bookmarks, Replace(objects, trailer_root, 1))
    /\ pc' = "adjust"
    /\ UNCHANGED <<files, documents, max_id, page_num, documents_pages,
                   documents_objects, catalog_object, pages_object, outFile,
                   diag, status>>

\* Document::adjust_zero_pages: a bookmark whose target is the zero
\* identifier takes the target of its first child.  The bookmarks recorded by
\* merge_pdf have no children (add_bookmark with parent None), so such a
\* bookmark stays as it is.
AdjustZeroPages(bms) == bms

\* merge_pdf, line 179.
Adjust ==
    /\ pc = "adjust"
    /\ bookmarks' = AdjustZeroPages(bookmarks)
    /\ pc' = "outline"
    /\ UNCHANGED <<files, documents, max_id, page_num, documents_pages,
                   documents_objects, objects, trailer_root, doc_max_id,
                   catalog_object, pages_object, outFile, diag, status>>

\* Identifier of the outline root build_outline creates: the next free one.
OutlineRoot(maxId) == maxId + 1

\* Document::build_outline: with no bookmark it adds nothing, else an
\* Outlines root and one Outline item per bookmark, each item with its
\* bookmark's target as destination.
BuildOutline(objs, bms, maxId) ==
    IF bms = <<>> THEN objs
    ELSE MapExtend(objs,
            [n \in OutlineRoot(maxId)..(OutlineRoot(maxId) + Len(bms)) |->
                IF n = OutlineRoot(maxId)
                THEN [Obj("Outlines", <<0, 0>>)
                        EXCEPT !.kids = [k \in 1..Len(bms) |-> OutlineRoot(maxId) + k],
                               !.count = <<Len(bms)>>]
                ELSE [Obj("Outline", <<0, bms[n - OutlineRoot(maxId)].title>>)
                        EXCEPT !.parent = OutlineRoot(maxId),
                               !.dest = bms[n - OutlineRoot(maxId)].page]])

\* Lines 183-187: get_object_mut(id) and dict.set("Outlines", n); nothing
\* happens when no object has that identifier.
SetOutlines(objs, id, n) ==
    IF id \in DOMAIN objs THEN [objs EXCEPT ![id].outlines = n] ELSE objs

\* merge_pdf, lines 182-188.  catalog_object.id is the identifier captured
\* at lines 70-77.
Outline ==
    /\ pc = "outline"
    /\ objects' = IF bookmarks = <<>> THEN objects
                  ELSE SetOutlines(BuildOutline(objects, bookmarks, doc_max_id),
                                   catalog_object.id, OutlineRoot(doc_max_id))
    /\ doc_max_id' = IF bookmarks = <<>> THEN doc_max_id
                     ELSE OutlineRoot(doc_max_id) + Len(bookmarks)
    /\ pc' = "compress"
    /\ UNCHANGED <<files, documents, max_id, page_num, documents_pages,
                   documents_objects, trailer_root, bookmarks, catalog_object,
                   pages_object, outFile, diag, status>>

\* merge_pdf, lines 190-192: compress() re-encodes stream contents and
\* changes no dictionary modelled here; merge_pdf returns Some(document).
Compress ==
    /\ pc = "compress"
    /\ pc' = "save"
    /\ UNCHANGED <<files, documents, max_id, page_num, documents_pages,
                   documents_objects, objects, trailer_root, doc_max_id,
                   bookmarks, catalog_object, pages_object, outFile, diag,
                   status>>

\* main, lines 214-218 and 224: the merged document is written, the success
\* line printed, and main returns Ok.
Save ==
    /\ pc = "save"
    /\ outFile' = "written"
    /\ status' = "success"
    /\ pc' = "done"
    /\ UNCHANGED <<files, documents, max_id, page_num, documents_pages,
                   documents_objects, objects, trailer_root, doc_max_id,
                   bookmarks, catalog_object, pages_object, diag>>

\* main, line 216: save_to fails part-way; `?` returns the error.
SaveErr ==
    /\ pc = "save"
    /\ outFile' = "partial"
    /\ diag' = diag + 1
    /\ status' = "failure"
    /\ pc' = "done"
    /\ UNCHANGED <<files, documents, max_id, page_num, documents_pages,
                   documents_objects, objects, trailer_root, doc_max_id,
                   bookmarks, catalog_object, pages_object>>

\* main, lines 220-224: merge_pdf returned None; main prints "Failed to merge
\* PDFs." and returns Ok(()).
MergeFailed ==
    /\ pc = "mergeFailed"
    /\ diag' = diag + 1
    /\ status' = "success"
    /\ pc' = "done"
    /\ UNCHANGED <<files, documents, max_id, page_num, documents_pages,
                   documents_objects, objects, trailer_root, doc_max_id,
                   bookmarks, catalog_object, pages_object, outFile>>

Next ==
    \/ Load \/ LoadErr \/ Create \/ CreateErr
    \/ AllocCollect \/ Classify
    \/ PagesNotFound \/ Reparent \/ CatalogNotFound
    \/ BuildPages \/ BuildCatalog \/ Renumber \/ Adjust \/ Outline \/ Compress
    \/ Save \/ SaveErr \/ MergeFailed

Spec == Init /\ [][Next]_vars

----------------------------------------------------------------------------
\* Vocabulary of the properties.

RECURSIVE SumOver(_, _)
\* Sum of f[1..n].
SumOver(f, n) == IF n = 0 THEN 0 ELSE f[n] + SumOver(f, n - 1)

RECURSIVE ConcatOver(_, _)
\* Concatenation of f[1..n].
ConcatOver(f, n) == IF n = 0 THEN <<>> ELSE ConcatOver(f, n - 1) \o f[n]

\* The d-th input document as loaded.
InputDoc(d) == MakeDoc(d, files[d])

\* The pages of the d-th input in its own page order, each named by its
\* content.
InputPages(d) ==
    LET po == PageIter(InputDoc(d).objects, InputDoc(d).root)
    IN [k \in 1..Len(po) |-> InputDoc(d).objects[po[k]].body]

\* The inputs that have at least one page, in input order.
PagedInputs == SelectSeq([d \in 1..Len(files) |-> d], LAMBDA d : InputPages(d) # <<>>)

\* merge_pdf has returned Some(document).
MergeSucceeded == pc = "save"

SurvivingPagesId == objects[trailer_root].pages
SurvivingPages == objects[SurvivingPagesId]
MergedKids == SurvivingPages.kids

\* C1: after a successful merge the page count is the sum of the inputs'
\* page counts and Kids lists the inputs' pages, input after input, each
\* input's pages in its own page order.
C1_KidsAreConcatenation ==
    MergeSucceeded =>
        /\ Len(MergedKids) = SumOver([d \in 1..Len(files) |-> Len(InputPages(d))], Len(files))
        /\ SurvivingPages.count = <<Len(MergedKids)>>
        /\ \A i \in 1..Len(MergedKids) : MergedKids[i] \in DOMAIN objects
        /\ [i \in 1..Len(MergedKids) |-> objects[MergedKids[i]].body]
             = ConcatOver([d \in 1..Len(files) |-> InputPages(d)], Len(files))

\* Two inputs with pages were merged, one of them with page object numbers
\* that descend in page order.
C1_Witness ==
    /\ MergeSucceeded
    /\ Len(files) = 2
    /\ files[1].rev
    /\ files[2].np >= 1

\* C2: when merge_pdf fails the output path has not been created, truncated
\* or written.
C2_NoOutputOnMergeFailure ==
    pc = "mergeFailed" => outFile = "untouched"

\* C3: a run that ends without the merged document written has printed
\* exactly one diagnostic line and has a failure status.
C3_FailureIsReported ==
    (pc = "done" /\ outFile # "written") => (diag = 1 /\ status = "failure")

\* C4 as stated: one bookmark per input with pages, in input order, the
\* bookmark of the input at position n titled "Page_n".
C4_TitleIsInputPosition ==
    MergeSucceeded =>
        /\ Len(bookmarks) = Len(PagedInputs)
        /\ \A k \in 1..Len(bookmarks) : bookmarks[k].title = PagedInputs[k]

\* C4 amended: one bookmark per input with pages and none for an input
\* without pages, in input order, the bookmark of the k-th input that has
\* pages titled "Page_k".
C4_TitleIsRankAmongPaged ==
    MergeSucceeded =>
        /\ Len(bookmarks) = Len(PagedInputs)
        /\ \A k \in 1..Len(bookmarks) :
              /\ bookmarks[k].title = k
              /\ bookmarks[k].page \in DOMAIN objects
              /\ objects[bookmarks[k].page].body[1] = PagedInputs[k]

\* An input without pages was merged before an input with pages.
C4_Witness ==
    /\ MergeSucceeded
    /\ Len(files) = 2
    /\ files[1].hasPages /\ files[1].np = 0
    /\ files[2].np >= 1
    /\ Len(bookmarks) = 1

\* C5: after a successful merge every bookmark targets a Page of the merged
\* table that is listed in Kids and is the first page of its own input.
C5_BookmarkTargets ==
    MergeSucceeded =>
        \A k \in 1..Len(bookmarks) :
            /\ bookmarks[k].page \in DOMAIN objects
            /\ objects[bookmarks[k].page].type = "Page"
            /\ bookmarks[k].page \in Range(MergedKids)
            /\ k <= Len(PagedInputs)
            /\ objects[bookmarks[k].page].body = InputPages(PagedInputs[k])[1]

\* The compaction gave a bookmark's page another identifier than the one it
\* had in the page pool when the bookmark was recorded.
C5_Witness ==
    /\ MergeSucceeded
    /\ \E k \in 1..Len(bookmarks) : \E id \in DOMAIN documents_pages :
          /\ bookmarks[k].page \in DOMAIN objects
          /\ documents_pages[id].body = objects[bookmarks[k].page].body
          /\ id # bookmarks[k].page

\* C6: after a successful merge Count is the length of Kids, every Kids
\* entry is an object whose Parent is the surviving Pages, and so is every
\* Page object of the merged table.
C6_PageTreeConsistent ==
    MergeSucceeded =>
        /\ SurvivingPages.count = <<Len(MergedKids)>>
        /\ \A i \in 1..Len(MergedKids) :
              /\ MergedKids[i] \in DOMAIN objects
              /\ objects[MergedKids[i]].parent = SurvivingPagesId
        /\ \A id \in DOMAIN objects :
              objects[id].type = "Page" => objects[id].parent = SurvivingPagesId

\* Pages of two inputs hang under the surviving Pages.
C6_Witness ==
    /\ MergeSucceeded
    /\ Len(files) = 2
    /\ files[1].np >= 1 /\ files[2].np >= 1
    /\ Len(MergedKids) >= 2

\* The outline root build_outline added.
OutlineRootId == doc_max_id - Len(bookmarks)

\* C7: when there are bookmarks, after merge_pdf the Catalog the trailer's
\* Root refers to has Outlines referencing the outline root, and no other
\* object has.
C7_OutlinesOnCatalog ==
    (MergeSucceeded /\ bookmarks # <<>>) =>
        /\ objects[trailer_root].outlines = OutlineRootId
        /\ \A id \in DOMAIN objects \ {trailer_root} :
              objects[id].outlines # OutlineRootId

\* The Catalog-typed objects of the inputs, by renumbered identifier.
InputCatalogs == {id \in DOMAIN documents_objects : documents_objects[id].type = "Catalog"}

\* C8: the surviving Catalog has the identifier and the content of the
\* first-encountered Catalog.
C8_FirstCatalogSurvives ==
    MergeSucceeded =>
        /\ catalog_object.id = Min(InputCatalogs)
        /\ objects[trailer_root].body = documents_objects[Min(InputCatalogs)].body

\* The inputs whose Pages dictionary defines the custom field.
DefinesF == {d \in 1..Len(files) : files[d].pf}

\* C9: the surviving Pages keeps the identifier of the first-encountered
\* Pages and, for the custom field, the value of the first Pages dictionary
\* that defines it.
C9_FirstWins ==
    MergeSucceeded =>
        /\ pages_object.id
             = Min({id \in DOMAIN documents_objects : documents_objects[id].type = "Pages"})
        /\ SurvivingPages.F = IF DefinesF = {} THEN 0 ELSE Min(DefinesF)

\* Number of inputs the allocator loop has handled.
Handled == Len(files) - Len(documents)

\* The original of a renumbered object.
Original(o) == InputDoc(o.body[1]).objects[o.body[2]]

\* A renumbered reference r designates the object the original reference
\* did.
SameTarget(o, r, orig) ==
    IF orig = 0 THEN r = 0
    ELSE /\ r \in DOMAIN documents_objects
         /\ documents_objects[r].body = <<o.body[1], orig>>

====
